---- MODULE Spec2Model ----
(***************************************************************************)
(* DOM distillation and identifier resolution of the Playwright MCP        *)
(* server: captureOptimizedSnapshot (src/domOptimizer.ts) walks the frames *)
(* of a page, filters the candidate elements, numbers the retained ones    *)
(* and writes the number on the element as the data-mcp-id attribute; the  *)
(* action tools (tools/snapshot.ts) address an element either by that      *)
(* number (mcpId) or by an ARIA reference (ref).                           *)
(***************************************************************************)
EXTENDS Integers, Sequences, FiniteSets, TLC

\* ------------------------------------------------------------------ bounds
MaxChanges == 1     \* page changes (style change, removal, detach, navigation)
MaxPasses == 2      \* distillation passes between tool calls (SpecTools)
MaxNesting == 12    \* documents nested in one another (SpecLegacy)
MaxWalkSteps == 4   \* iterations of the ancestor-offset loop for one frame (SpecWalk)

\* -------------------------------------------------------- program constants
DefaultViewportBuffer == 1000
DefaultMaxTextLength == 100
DefaultMinWidth == 1
DefaultMinHeight == 1
MAX_DEPTH == 10

\* The page under test: the main frame (1), frame 2 embedded in it and frame 3
\* embedded in frame 2.  The main frame has two candidate elements, a nested
\* frame one.
Frames == 1 .. 3
MainFrame == 1
ElemCount(f) == IF f = MainFrame THEN 2 ELSE 1

\* An optional value: <<>> is undefined, <<v>> is the value v.
Undefined == <<>>
Some(v) == <<v>>

\* ------------------------------------------------------------ page inputs
\* window.innerHeight of every frame.
ViewportHeights == {600}
\* window.scrollY of a frame after it was scrolled.
ScrollOffsets == {300}

\* The layout box and computed style of a candidate element, by kind.  top and
\* x are relative to the viewport of the element's own frame; label says what
\* the first non-empty label source is: a string ("text"), nothing ("empty"),
\* or the numeric value property of an li / meter / progress ("number").
Box(x, top, w, h, d, v, o, l) ==
    [x |-> x, top |-> top, width |-> w, height |-> h,
     display |-> d, visibility |-> v, opacity |-> o, label |-> l]

Kinds ==
    [visible  |-> Box(5, 5, 20, 10, "block", "visible", 1, "text"),
     nolabel  |-> Box(5, 5, 20, 10, "block", "visible", 1, "empty"),
     dnone    |-> Box(5, 5, 20, 10, "none", "visible", 1, "text"),
     vhidden  |-> Box(5, 5, 20, 10, "block", "hidden", 1, "text"),
     opaque0  |-> Box(5, 5, 20, 10, "block", "visible", 0, "text"),
     thin     |-> Box(5, 5, 0, 10, "block", "visible", 1, "text"),
     small    |-> Box(5, 5, 5, 5, "block", "visible", 1, "text"),
     lowEdge  |-> Box(5, -1010, 20, 10, "block", "visible", 1, "text"),
     lowOut   |-> Box(5, -1011, 20, 10, "block", "visible", 1, "text"),
     highEdge |-> Box(5, 1600, 20, 10, "block", "visible", 1, "text"),
     highOut  |-> Box(5, 1601, 20, 10, "block", "visible", 1, "text"),
     numval   |-> Box(5, 5, 20, 10, "block", "visible", 1, "number")]

KindNames == DOMAIN Kinds

\* Position of the iframe element of frame f inside the viewport of its parent.
FramePos(f) ==
    IF f = 2 THEN [x |-> 10, y |-> 20]
    ELSE IF f = 3 THEN [x |-> 50, y |-> 100]
    ELSE [x |-> 5 * f, y |-> 10 * f]

\* The options a caller may pass (SnapshotOptions), every field optional: every
\* combination of includeHidden and minElementSize, and a viewportBuffer of 0
\* with the other fields left out.
OptionValues ==
    {o \in [viewportBuffer : {Undefined, Some(0)},
            maxTextLength : {Undefined},
            includeHidden : {Undefined, Some(TRUE)},
            minElementSize : {Undefined, Some([width |-> 0, height |-> 0]),
                              Some([width |-> 10, height |-> 10])}] :
        o.viewportBuffer = Undefined
            \/ (o.includeHidden = Undefined /\ o.minElementSize = Undefined)}

VARIABLES
    elems,            \* elems[f]: the candidate elements of frame f in document order
    detached,         \* detached[f]: frame.isDetached()
    parentOf,         \* parentOf[f]: frame.parentFrame(), 0 for the main frame
    scrollY,          \* scrollY[f]: window.scrollY in frame f
    innerHeight,      \* window.innerHeight
    pc,               \* "idle", "loop" or "blocked": position of captureOptimizedSnapshot
    opts,             \* options with the defaults applied
    allFrames,        \* page.frames() taken at the start of the pass
    idx,              \* position of the for loop in allFrames
    globalIdCounter,
    allResults,
    result,           \* the last OptimizedDOMResult returned
    written,          \* history: <<frame, index, id>> of every setAttribute of the pass
    frameNode,        \* history: per frame, what the pass did with it and the offset it used
    quiet,            \* history: the page has not changed since the pass started
    passes,
    changes,
    lastAction,       \* the last tool call and what it did
    legacy,           \* captureOptimizedSnapshotSingleFrame: its page, result and console
    labelling,        \* one retained element's label sources and the label extracted from them
    walk              \* the while loop that sums the offsets of the ancestors of one frame

pageVars == <<elems, detached, parentOf, scrollY, innerHeight>>
passVars == <<pc, opts, allFrames, idx, globalIdCounter, allResults, result, written,
              frameNode, passes, legacy, labelling, walk>>
vars == <<elems, detached, parentOf, scrollY, innerHeight, pc, opts, allFrames, idx,
          globalIdCounter, allResults, result, written, frameNode, quiet, passes, changes,
          lastAction, legacy, labelling, walk>>

\* ------------------------------------------------------------- pure parts
\* a ?? b
Default(v, d) == IF v = Undefined THEN d ELSE v[1]

\* The defaults of captureOptimizedSnapshot.
ApplyDefaults(options) ==
    [viewportBuffer |-> Default(options.viewportBuffer, DefaultViewportBuffer),
     maxTextLength |-> Default(options.maxTextLength, DefaultMaxTextLength),
     includeHidden |-> Default(options.includeHidden, FALSE),
     minWidth |-> IF options.minElementSize = Undefined THEN DefaultMinWidth
                  ELSE options.minElementSize[1].width,
     minHeight |-> IF options.minElementSize = Undefined THEN DefaultMinHeight
                   ELSE options.minElementSize[1].height]

\* el.getBoundingClientRect(): an element that is not rendered has an empty box.
getBoundingClientRect(kind) ==
    LET k == Kinds[kind] IN
    IF k.display = "none"
    THEN [x |-> 0, y |-> 0, top |-> 0, bottom |-> 0, width |-> 0, height |-> 0]
    ELSE [x |-> k.x, y |-> k.top, top |-> k.top, bottom |-> k.top + k.height,
          width |-> k.width, height |-> k.height]

\* The size check.
TooSmall(rect, o) == rect.width < o.minWidth \/ rect.height < o.minHeight

\* The CSS visibility checks.
CssHidden(kind) ==
    \/ Kinds[kind].display = "none"
    \/ Kinds[kind].visibility = "hidden"
    \/ Kinds[kind].opacity = 0

\* Mutant: the viewport bounds are those of the unscrolled window.
OutsideViewportUnscrolled(rect, o, sY, viewportHeight, frameOffsetY) ==
    LET absoluteTop == rect.top + sY + frameOffsetY
        absoluteBottom == rect.bottom + sY + frameOffsetY
        viewportTop == 0 - o.viewportBuffer
        viewportBottom == viewportHeight + o.viewportBuffer
    IN absoluteBottom < viewportTop \/ absoluteTop > viewportBottom

\* Mutant: the comparison rejects an element that touches the boundary.
OutsideViewportExclusive(rect, o, sY, viewportHeight, frameOffsetY) ==
    LET absoluteTop == rect.top + sY + frameOffsetY
        absoluteBottom == rect.bottom + sY + frameOffsetY
        viewportTop == sY - o.viewportBuffer
        viewportBottom == sY + viewportHeight + o.viewportBuffer
    IN absoluteBottom <= viewportTop \/ absoluteTop >= viewportBottom

\* The viewport intersection with buffer, adjusted for the frame offset.
OutsideViewport(rect, o, sY, viewportHeight, frameOffsetY) ==
    LET absoluteTop == rect.top + sY + frameOffsetY
        absoluteBottom == rect.bottom + sY + frameOffsetY
        viewportTop == sY - o.viewportBuffer
        viewportBottom == sY + viewportHeight + o.viewportBuffer
    IN absoluteBottom < viewportTop \/ absoluteTop > viewportBottom

\* Mutant: the CSS checks are made whether or not includeHidden is set.
RetainedCssAlways(kind, o, sY, viewportHeight, frameOffsetY) ==
    LET rect == getBoundingClientRect(kind) IN
    /\ ~TooSmall(rect, o)
    /\ ~CssHidden(kind)
    /\ \/ o.includeHidden
       \/ ~OutsideViewport(rect, o, sY, viewportHeight, frameOffsetY)

\* Mutant: the size check sits inside the includeHidden test.
RetainedSizeUnderOverride(kind, o, sY, viewportHeight, frameOffsetY) ==
    LET rect == getBoundingClientRect(kind) IN
    \/ o.includeHidden
    \/ /\ ~TooSmall(rect, o)
       /\ ~CssHidden(kind)
       /\ ~OutsideViewport(rect, o, sY, viewportHeight, frameOffsetY)

\* The three early returns of the forEach callback: TRUE when the element goes on
\* to get an identifier.
Retained(kind, o, sY, viewportHeight, frameOffsetY) ==
    LET rect == getBoundingClientRect(kind) IN
    /\ ~TooSmall(rect, o)
    /\ \/ o.includeHidden
       \/ /\ ~CssHidden(kind)
          /\ ~OutsideViewport(rect, o, sY, viewportHeight, frameOffsetY)

\* The same three early returns in the earlier, main-document-only revision of
\* captureOptimizedSnapshot: no frame offset enters the viewport test.
PageRetained(kind, o, sY, viewportHeight) ==
    LET rect == getBoundingClientRect(kind)
        absoluteTop == rect.top + sY
        absoluteBottom == rect.bottom + sY
        viewportTop == sY - o.viewportBuffer
        viewportBottom == sY + viewportHeight + o.viewportBuffer
    IN /\ ~(rect.width < o.minWidth \/ rect.height < o.minHeight)
       /\ \/ o.includeHidden
          \/ /\ ~(\/ Kinds[kind].display = "none"
                  \/ Kinds[kind].visibility = "hidden"
                  \/ Kinds[kind].opacity = 0)
             /\ ~(absoluteBottom < viewportTop \/ absoluteTop > viewportBottom)

\* elementHandle.boundingBox() of the iframe element of frame f: Playwright
\* reports the box relative to the viewport of the main frame.
RECURSIVE boundingBox(_, _)
boundingBox(f, parent) ==
    IF f = MainFrame \/ parent[f] = 0 THEN [x |-> 0, y |-> 0]
    ELSE LET up == boundingBox(parent[f], parent) IN
         [x |-> FramePos(f).x + up.x, y |-> FramePos(f).y + up.y]

\* The while loop that sums the boxes of the iframe elements from the frame up
\* to the main frame.  noBox holds the frames whose frameElement() throws or
\* whose box is null: they add nothing.
RECURSIVE FrameOffsetAbandoned(_, _, _)
FrameOffsetAbandoned(currentFrame, parent, noBox) ==
    IF currentFrame = MainFrame THEN [x |-> 0, y |-> 0]
    ELSE IF parent[currentFrame] = 0 \/ currentFrame \in noBox THEN [x |-> 0, y |-> 0]
    ELSE LET rest == FrameOffsetAbandoned(parent[currentFrame], parent, noBox)
             box == boundingBox(currentFrame, parent)
         IN [x |-> rest.x + box.x, y |-> rest.y + box.y]

RECURSIVE FrameOffset(_, _, _)
FrameOffset(currentFrame, parent, noBox) ==
    IF currentFrame = MainFrame THEN [x |-> 0, y |-> 0]
    ELSE IF parent[currentFrame] = 0 THEN [x |-> 0, y |-> 0]
    ELSE LET rest == FrameOffset(parent[currentFrame], parent, noBox)
             box == boundingBox(currentFrame, parent)
         IN IF currentFrame \in noBox THEN rest
            ELSE [x |-> rest.x + box.x, y |-> rest.y + box.y]

\* The frames whose iframe element the loop inspects for frame f.
RECURSIVE Links(_, _)
Links(f, parent) ==
    IF f = MainFrame \/ parent[f] = 0 THEN {} ELSE {f} \cup Links(parent[f], parent)

\* The label of a retained element after replace/trim/slice: only its emptiness
\* is kept.
ExtractText(kind) == IF Kinds[kind].label = "empty" THEN "" ELSE "t"

\* Mutant: every frame counts from 1.
StartIdPerFrame(counter) == 1

\* The first identifier a frame's script hands out.
StartId(counter) == counter

\* The forEach of the in-page script from element i on.  acc carries idCounter,
\* the two output arrays, the elements with their markers, the setAttribute
\* calls made, and whether the callback threw (text.replace on a number).
\* ctx.pageOnly selects the filter of the main-document-only revision, whose
\* callback is otherwise the same with no offsets.
RECURSIVE ForEachElement(_, _, _)
ForEachElement(i, acc, ctx) ==
    IF i > Len(acc.els) \/ acc.threw THEN acc
    ELSE LET kind == acc.els[i].kind
             rect == getBoundingClientRect(kind)
             keep == IF ctx.pageOnly
                     THEN PageRetained(kind, ctx.opts, ctx.scrollY, ctx.viewportHeight)
                     ELSE Retained(kind, ctx.opts, ctx.scrollY, ctx.viewportHeight,
                                   ctx.frameOffsetY)
         IN IF ~keep
            THEN ForEachElement(i + 1, acc, ctx)
            ELSE LET mcpId == acc.idCounter
                     marked == [acc.els EXCEPT ![i].marker = mcpId]
                     wrote == acc.wrote \cup {<<ctx.frame, i, mcpId>>}
                 IN IF Kinds[kind].label = "number"
                    THEN [acc EXCEPT !.idCounter = mcpId + 1, !.els = marked,
                                     !.wrote = wrote, !.threw = TRUE]
                    ELSE ForEachElement(i + 1,
                           [idCounter |-> mcpId + 1,
                            els |-> marked,
                            wrote |-> wrote,
                            threw |-> FALSE,
                            distilledHTML |-> Append(acc.distilledHTML,
                                [id |-> mcpId, selfClosing |-> ExtractText(kind) = ""]),
                            elementMap |-> Append(acc.elementMap,
                                [mcpId |-> mcpId,
                                 text |-> ExtractText(kind),
                                 bounds |-> [x |-> rect.x + ctx.frameOffsetX,
                                             y |-> rect.y + ctx.frameOffsetY,
                                             width |-> rect.width,
                                             height |-> rect.height],
                                 src |-> <<ctx.frame, i>>])],
                           ctx)

\* The script frame.evaluate runs in one frame.
EvaluateInFrame(frame, els, o, counter, off, sY, viewportHeight) ==
    ForEachElement(1,
        [idCounter |-> StartId(counter), els |-> els, wrote |-> {}, threw |-> FALSE,
         distilledHTML |-> <<>>, elementMap |-> <<>>],
        [frame |-> frame, opts |-> o, scrollY |-> sY, viewportHeight |-> viewportHeight,
         frameOffsetX |-> off.x, frameOffsetY |-> off.y, pageOnly |-> FALSE])

\* The script page.evaluate runs in the main document in the earlier revision.
EvaluateInPage(els, o, sY, viewportHeight) ==
    ForEachElement(1,
        [idCounter |-> 1, els |-> els, wrote |-> {}, threw |-> FALSE,
         distilledHTML |-> <<>>, elementMap |-> <<>>],
        [frame |-> MainFrame, opts |-> o, scrollY |-> sY, viewportHeight |-> viewportHeight,
         frameOffsetX |-> 0, frameOffsetY |-> 0, pageOnly |-> TRUE])

\* Mutant: the fragments are concatenated last frame first.
RECURSIVE FlattenHTMLBackwards(_)
FlattenHTMLBackwards(rs) ==
    IF rs = <<>> THEN <<>> ELSE FlattenHTMLBackwards(Tail(rs)) \o rs[1].distilledHTML

\* Concatenation of the per-frame arrays.
RECURSIVE FlattenHTML(_)
FlattenHTML(rs) ==
    IF rs = <<>> THEN <<>> ELSE rs[1].distilledHTML \o FlattenHTML(Tail(rs))

RECURSIVE FlattenMap(_)
FlattenMap(rs) ==
    IF rs = <<>> THEN <<>> ELSE rs[1].elementMap \o FlattenMap(Tail(rs))

RECURSIVE SumTotal(_)
SumTotal(rs) ==
    IF rs = <<>> THEN 0 ELSE rs[1].totalElements + SumTotal(Tail(rs))

\* Mutant: the total counts the retained elements only.
MergeResultsTotalRetained(rs) ==
    [distilledHTML |-> FlattenHTML(rs),
     elementMap |-> FlattenMap(rs),
     totalElements |-> Len(FlattenMap(rs)),
     visibleElements |-> Len(FlattenMap(rs))]

\* The merge after the loop and the returned object.
MergeResults(rs) ==
    [distilledHTML |-> FlattenHTML(rs),
     elementMap |-> FlattenMap(rs),
     totalElements |-> SumTotal(rs),
     visibleElements |-> Len(FlattenMap(rs))]

\* ------------------------------------- the standalone script of the guide
\* captureOptimizedSnapshot of test-distillation.js, translated from the guide.
GuideDefaults(options) ==
    [viewportBuffer |-> IF options.viewportBuffer = Undefined THEN 1000
                        ELSE options.viewportBuffer[1],
     maxTextLength |-> IF options.maxTextLength = Undefined THEN 100
                       ELSE options.maxTextLength[1],
     includeHidden |-> IF options.includeHidden = Undefined THEN FALSE
                       ELSE options.includeHidden[1],
     minWidth |-> IF options.minElementSize = Undefined THEN 1
                  ELSE options.minElementSize[1].width,
     minHeight |-> IF options.minElementSize = Undefined THEN 1
                   ELSE options.minElementSize[1].height]

\* The while loop of the guide's script: x and y are frameOffsetX and
\* frameOffsetY so far.
RECURSIVE GuideOffset(_, _, _, _, _)
GuideOffset(currentFrame, parent, noBox, x, y) ==
    IF currentFrame = MainFrame \/ parent[currentFrame] = 0 THEN [x |-> x, y |-> y]
    ELSE IF currentFrame \in noBox
         THEN GuideOffset(parent[currentFrame], parent, noBox, x, y)
         ELSE GuideOffset(parent[currentFrame], parent, noBox,
                          x + boundingBox(currentFrame, parent).x,
                          y + boundingBox(currentFrame, parent).y)

\* Mutant: the viewport test leaves the frame offset out.
GuideOutsideViewportNoOffset(rect, ev) ==
    \/ rect.bottom + ev.scrollY < ev.scrollY - ev.viewportBuffer
    \/ rect.top + ev.scrollY > ev.scrollY + ev.viewportHeight + ev.viewportBuffer

\* The viewport test of the guide's forEach callback.
GuideOutsideViewport(rect, ev) ==
    \/ rect.bottom + ev.scrollY + ev.frameOffsetY < ev.scrollY - ev.viewportBuffer
    \/ rect.top + ev.scrollY + ev.frameOffsetY
           > ev.scrollY + ev.viewportHeight + ev.viewportBuffer

\* The callback's returns before an identifier is handed out.
GuideRejects(kind, ev) ==
    LET rect == getBoundingClientRect(kind)
        computed == Kinds[kind]
    IN \/ rect.width < ev.minWidth \/ rect.height < ev.minHeight
       \/ /\ ~ev.includeHidden
          /\ \/ computed.display = "none" \/ computed.visibility = "hidden"
                \/ computed.opacity = 0
             \/ GuideOutsideViewport(rect, ev)

\* elements.forEach of the guide's script from element i on: st holds
\* idCounter, the two arrays, the elements, the setAttribute calls and
\* whether the callback threw.
RECURSIVE GuideForEach(_, _, _)
GuideForEach(i, st, ev) ==
    IF st.threw \/ i > Len(st.els) THEN st
    ELSE IF GuideRejects(st.els[i].kind, ev) THEN GuideForEach(i + 1, st, ev)
    ELSE LET kind == st.els[i].kind
             rect == getBoundingClientRect(kind)
             text == ExtractText(kind)
             assigned == [st EXCEPT !.idCounter = @ + 1,
                                    !.els[i].marker = st.idCounter,
                                    !.wrote = @ \cup {<<ev.frame, i, st.idCounter>>}]
         IN IF Kinds[kind].label = "number"
            THEN [assigned EXCEPT !.threw = TRUE]
            ELSE GuideForEach(i + 1,
                     [assigned EXCEPT
                         !.distilledHTML = Append(@, [id |-> st.idCounter,
                                                      selfClosing |-> text = ""]),
                         !.elementMap = Append(@,
                             [mcpId |-> st.idCounter, text |-> text,
                              bounds |-> [x |-> rect.x + ev.frameOffsetX,
                                          y |-> rect.y + ev.frameOffsetY,
                                          width |-> rect.width, height |-> rect.height],
                              src |-> <<ev.frame, i>>])],
                     ev)

\* The guide's script for one frame.
GuideEvaluate(frame, els, o, startId, off, sY, viewportHeight) ==
    GuideForEach(1,
        [idCounter |-> startId, els |-> els, wrote |-> {}, threw |-> FALSE,
         distilledHTML |-> <<>>, elementMap |-> <<>>],
        [frame |-> frame, viewportBuffer |-> o.viewportBuffer,
         includeHidden |-> o.includeHidden, minWidth |-> o.minWidth,
         minHeight |-> o.minHeight, frameOffsetX |-> off.x, frameOffsetY |-> off.y,
         scrollY |-> sY, viewportHeight |-> viewportHeight])

\* The guide's merge loop over allResults from the k-th on, and the object
\* returned.
RECURSIVE GuideMerge(_, _, _)
GuideMerge(allRes, k, merged) ==
    IF k > Len(allRes)
    THEN [distilledHTML |-> merged.distilledHTML, elementMap |-> merged.elementMap,
          totalElements |-> merged.totalElements,
          visibleElements |-> Len(merged.elementMap)]
    ELSE GuideMerge(allRes, k + 1,
             [distilledHTML |-> merged.distilledHTML \o allRes[k].distilledHTML,
              elementMap |-> merged.elementMap \o allRes[k].elementMap,
              totalElements |-> merged.totalElements + allRes[k].totalElements])

\* The guide's loop over the frames from the k-th on.  page holds the frames
\* enumerated, the elements, parents, scroll offsets and viewport height;
\* env says for each frame whether it is detached when the loop reaches it,
\* whether its evaluation is rejected, and which links give no box.
RECURSIVE GuideLoop(_, _, _, _, _)
GuideLoop(k, st, page, env, o) ==
    IF k > Len(page.frames)
    THEN [result |-> GuideMerge(st.allResults, 1,
                         [distilledHTML |-> <<>>, elementMap |-> <<>>, totalElements |-> 0]),
          els |-> st.els, wrote |-> st.wrote]
    ELSE LET frame == page.frames[k] IN
         IF env[frame].detached THEN GuideLoop(k + 1, st, page, env, o)
         ELSE LET off == GuideOffset(frame, page.parent, env[frame].noBox, 0, 0)
                  r == GuideEvaluate(frame, st.els[frame], o, st.globalIdCounter, off,
                                     page.scrollY[frame], page.innerHeight)
                  ran == [st EXCEPT !.els[frame] = r.els, !.wrote = @ \cup r.wrote]
              IN IF r.threw \/ env[frame].rejected
                 THEN GuideLoop(k + 1, ran, page, env, o)
                 ELSE GuideLoop(k + 1,
                          [ran EXCEPT
                              !.globalIdCounter = r.idCounter,
                              !.allResults = Append(@,
                                  [distilledHTML |-> r.distilledHTML,
                                   elementMap |-> r.elementMap,
                                   totalElements |-> Len(st.els[frame]),
                                   nextId |-> r.idCounter])],
                          page, env, o)

\* The guide's captureOptimizedSnapshot(page, options), options with the
\* defaults applied.
GuideSnapshot(page, env, o) ==
    GuideLoop(1, [globalIdCounter |-> 1, allResults |-> <<>>, els |-> page.els, wrote |-> {}],
              page, env, o)

\* ------------------------------------------------------- label extraction
\* A string is a sequence of characters; null and undefined are Undefined.
Whitespace == {" ", "\t", "\n"}

\* The label sources in the order the script reads them.
LabelSourceNames == <<"innerText", "ariaLabel", "placeholder", "title", "alt", "value">>

\* a || b on values that are strings, null or undefined.
Or(a, b) == IF a = Undefined \/ a[1] = <<>> THEN b ELSE a

\* text.replace(/\s+/g, ' ')
RECURSIVE ReplaceWhitespaceRuns(_)
ReplaceWhitespaceRuns(text) ==
    IF text = <<>> THEN <<>>
    ELSE IF Head(text) \notin Whitespace
         THEN <<Head(text)>> \o ReplaceWhitespaceRuns(Tail(text))
         ELSE IF Len(text) > 1 /\ text[2] \in Whitespace
              THEN ReplaceWhitespaceRuns(Tail(text))
              ELSE <<" ">> \o ReplaceWhitespaceRuns(Tail(text))

\* text.trim()
RECURSIVE TrimStart(_)
TrimStart(text) ==
    IF text # <<>> /\ Head(text) \in Whitespace THEN TrimStart(Tail(text)) ELSE text

RECURSIVE TrimEnd(_)
TrimEnd(text) ==
    IF text # <<>> /\ text[Len(text)] \in Whitespace
    THEN TrimEnd(SubSeq(text, 1, Len(text) - 1))
    ELSE text

Trim(text) == TrimEnd(TrimStart(text))

\* Mutant: nothing is cut off.
SliceWhole(text, end) == text

\* text.slice(0, end) for end >= 0
Slice(text, end) == SubSeq(text, 1, IF end < Len(text) THEN end ELSE Len(text))

\* The label of a retained element.
ExtractLabel(src, maxTextLength) ==
    LET text == Or(Or(Or(Or(Or(Or(src.innerText, src.ariaLabel), src.placeholder),
                           src.title), src.alt), src.value), Some(<<>>))
    IN Slice(Trim(ReplaceWhitespaceRuns(text[1])), maxTextLength)

\* The fragment built for the element: `if (text)` decides between
\* <tag ...>text</tag> and <tag ... />.
BuildFragment(text) == [selfClosing |-> text = <<>>, text |-> text]

\* What the sources of an element may hold: nothing, the empty string, blank
\* text, or text with whitespace runs in it.
BlankText == <<" ", "\t">>
SourceText ==
    [innerText   |-> <<" ", "a", " ", "\t", "b", " ">>,
     ariaLabel   |-> <<"c", "\n", "d">>,
     placeholder |-> <<"e">>,
     title       |-> <<"f", " ", " ", "f", "f">>,
     alt         |-> <<"g">>,
     value       |-> <<"h", "h", "h">>]
SourceValues(name) ==
    {Some(<<>>), Some(SourceText[name])}
        \cup (IF name \in {"innerText", "ariaLabel"} THEN {Some(BlankText)} ELSE {})

\* The maxTextLength a caller may pass.
TextOptionValues ==
    [viewportBuffer : {Undefined}, maxTextLength : {Undefined, Some(0), Some(2), Some(3)},
     includeHidden : {Undefined}, minElementSize : {Undefined}]

NoLabelling ==
    [src |-> [innerText |-> Undefined, ariaLabel |-> Undefined, placeholder |-> Undefined,
              title |-> Undefined, alt |-> Undefined, value |-> Undefined],
     maxTextLength |-> DefaultMaxTextLength,
     html |-> Undefined]

\* ----------------------------------------------- the ancestor-offset loop
\* The loop has not started: no frame, no link visited, offsets 0.  visited
\* lists the frames whose link the body ran for, boxes what each link gave.
NoWalk ==
    [pc |-> "none", frame |-> 0, currentFrame |-> 0, visited |-> <<>>, boxes |-> <<>>,
     x |-> 0, y |-> 0, stop |-> "none"]

\* What the body finds for one link: a box, no frame element, a null box, or
\* an exception thrown by frameElement() or boundingBox().
BoxOutcomes == {"box", "noElement", "null", "throws"}

\* currentFrame.parentFrame(): 0 stands for null.  For a frame that was
\* detached the call gives null or the frame it was nested in.
parentFrameOutcomes(f, parent, det) ==
    IF det[f] THEN {0, parent[f]} ELSE {parent[f]}

\* Mutant: the loop does not move up.
WalkNextStays(currentFrame, parentFrame) == currentFrame

\* currentFrame = parentFrame
WalkNext(currentFrame, parentFrame) == parentFrame

\* ------------------------------------------------------------ page state
\* frame.parentFrame(): 0 stands for null.
ParentMap == [f \in Frames |-> f - 1]

\* page.frames(): the attached frames, parents before children.
RECURSIVE AttachedFrom(_, _)
AttachedFrom(f, det) ==
    IF f \notin Frames THEN <<>>
    ELSE (IF det[f] THEN <<>> ELSE <<f>>) \o AttachedFrom(f + 1, det)

PageFrames(det) == AttachedFrom(1, det)

\* f is frame g or nested, at any depth, in frame g.
RECURSIVE Within(_, _, _)
Within(f, g, parent) ==
    IF f = g THEN TRUE
    ELSE IF f = 0 \/ f = MainFrame THEN FALSE
    ELSE Within(parent[f], g, parent)

NoResult == [kind |-> "none"]
NoNode == [status |-> "none", x |-> 0, y |-> 0, noBox |-> {}]
NoAction == [tool |-> "none"]
\* The page of the single-frame capture: same-origin documents nested in one
\* another, docs[1] the main document and docs[d + 1] the document of the one
\* iframe of docs[d]; every document holds one candidate element, docs[d] its
\* kind, markers[d] its data-mcp-id (0: none) and chains[d] whether the element
\* object carries the __iframeChain property.
NoLegacy == [docs |-> <<"visible">>, markers |-> <<0>>, chains |-> <<FALSE>>,
             result |-> NoResult, console |-> <<>>]

Init ==
    /\ parentOf = ParentMap
    /\ elems = [f \in Frames |-> [i \in 1 .. ElemCount(f) |-> [kind |-> "visible", marker |-> 0]]]
    /\ detached = [f \in Frames |-> FALSE]
    /\ scrollY = [f \in Frames |-> 0]
    /\ innerHeight \in ViewportHeights
    /\ pc = "idle"
    /\ opts = ApplyDefaults([viewportBuffer |-> Undefined, maxTextLength |-> Undefined,
                             includeHidden |-> Undefined, minElementSize |-> Undefined])
    /\ allFrames = <<>>
    /\ idx = 1
    /\ globalIdCounter = 1
    /\ allResults = <<>>
    /\ result = NoResult
    /\ written = {}
    /\ frameNode = [f \in Frames |-> NoNode]
    /\ quiet = TRUE
    /\ passes = 0
    /\ changes = 0
    /\ lastAction = NoAction
    /\ legacy = NoLegacy
    /\ labelling = NoLabelling
    /\ walk = NoWalk

\* ------------------------------------------------- captureOptimizedSnapshot
\* let globalIdCounter = 1 (mutant: the counter outlives the call).
InitialCounterCarried(previous) == previous

InitialCounter(previous) == 1

\* Entry: defaults, page.frames(), the empty result list, the counter at 1.
StartPass(options) ==
    /\ pc = "idle"
    /\ pc' = "loop"
    /\ opts' = ApplyDefaults(options)
    /\ allFrames' = PageFrames(detached)
    /\ idx' = 1
    /\ globalIdCounter' = InitialCounter(globalIdCounter)
    /\ allResults' = <<>>
    /\ result' = NoResult
    /\ written' = {}
    /\ frameNode' = [f \in Frames |-> NoNode]
    /\ quiet' = TRUE
    /\ passes' = passes + 1
    /\ lastAction' = NoAction
    /\ UNCHANGED <<pageVars, changes, legacy,
                   labelling, walk>>

\* The counter handed to the next frame after a frame's script returned
\* (mutant: one identifier is lost between frames).
NextCounterSkipsOne(frameResult) == frameResult.idCounter + 1

NextCounter(frameResult) == frameResult.idCounter

\* frame.isDetached() at the top of the loop body (mutant: never observed).
isDetachedIgnored(frame, det) == FALSE

isDetached(frame, det) == det[frame]

\* allResults.push({...}) after a successful evaluate.
PushResult(results, frameResult, total) ==
    Append(results, [distilledHTML |-> frameResult.distilledHTML,
                     elementMap |-> frameResult.elementMap,
                     totalElements |-> total])

\* The catch of the loop body: the error is logged, allResults is left as it
\* was (mutant: the failed frame's descriptors are kept).
CatchErrorKeepsFrame(results, frameResult, total) == PushResult(results, frameResult, total)

CatchError(results, frameResult, total) == results

\* One iteration of the for loop over allFrames; the last iteration runs on
\* into the merge and the return, which no await separates from it.  fate is
\* what happens to frame.evaluate: "ok" the script runs and its value arrives,
\* "rejected" the script ran and the call rejects (the execution context was
\* destroyed while the value was in flight).  A frame that goes away before its
\* script starts is a frame detached between two iterations.
ProcessFrame(fate, noBox) ==
    /\ pc = "loop"
    /\ idx <= Len(allFrames)
    /\ IF isDetached(allFrames[idx], detached) THEN noBox = {} /\ fate = "ok"
       ELSE noBox \subseteq Links(allFrames[idx], parentOf)
    /\ \E off \in {FrameOffset(allFrames[idx], parentOf, noBox)} :
       \E r \in {EvaluateInFrame(allFrames[idx], elems[allFrames[idx]], opts, globalIdCounter,
                                  off, scrollY[allFrames[idx]], innerHeight)} :
       LET frame == allFrames[idx]
           skip == isDetached(frame, detached)
           caught == ~skip /\ (r.threw \/ fate = "rejected")
           results == IF skip THEN allResults
                      ELSE IF caught THEN CatchError(allResults, r, Len(elems[frame]))
                      ELSE PushResult(allResults, r, Len(elems[frame]))
           counter == IF skip \/ caught THEN globalIdCounter ELSE NextCounter(r)
       IN /\ elems' = IF skip THEN elems ELSE [elems EXCEPT ![frame] = r.els]
          /\ written' = IF skip THEN written ELSE written \cup r.wrote
          /\ frameNode' = [frameNode EXCEPT ![frame] =
                [status |-> IF skip THEN "skipped" ELSE IF caught THEN "failed" ELSE "ok",
                 x |-> IF skip THEN 0 ELSE off.x,
                 y |-> IF skip THEN 0 ELSE off.y,
                 noBox |-> noBox]]
          /\ IF idx < Len(allFrames)
             THEN /\ idx' = idx + 1
                  /\ globalIdCounter' = counter
                  /\ allResults' = results
                  /\ UNCHANGED <<pc, allFrames, result>>
             ELSE /\ pc' = "idle"
                  /\ result' = [kind |-> "result"] @@ MergeResults(results)
                  /\ allFrames' = <<>>
                  /\ idx' = 1
                  /\ globalIdCounter' = counter
                  /\ allResults' = <<>>
    /\ UNCHANGED <<detached, parentOf, scrollY, innerHeight, opts, quiet, passes, changes,
                   lastAction, legacy,
                   labelling, walk>>

\* frame.evaluate of the current frame never settles (the frame's script thread
\* is busy, or a dialog blocks it): the call takes no timeout, so the await of
\* the loop body is never resumed.
EvaluateNeverReturns ==
    /\ pc = "loop"
    /\ idx <= Len(allFrames)
    /\ ~isDetached(allFrames[idx], detached)
    /\ pc' = "blocked"
    /\ UNCHANGED <<pageVars, opts, allFrames, idx, globalIdCounter, allResults, result,
                   written, frameNode, passes, quiet, changes, lastAction, legacy,
                   labelling, walk>>

\* The earlier revision of captureOptimizedSnapshot: one page.evaluate over the
\* main document.  A throwing script rejects the call.
CapturePageSnapshot(options) ==
    /\ pc = "idle"
    /\ \E o \in {ApplyDefaults(options)} :
       \E r \in {EvaluateInPage(elems[MainFrame], o, scrollY[MainFrame], innerHeight)} :
          /\ opts' = o
          /\ elems' = [elems EXCEPT ![MainFrame] = r.els]
          /\ written' = r.wrote
          /\ frameNode' = [f \in Frames |->
                 IF f = MainFrame
                 THEN [status |-> IF r.threw THEN "failed" ELSE "ok",
                       x |-> 0, y |-> 0, noBox |-> {}]
                 ELSE NoNode]
          /\ result' = IF r.threw THEN [kind |-> "error"]
                       ELSE [kind |-> "result",
                             distilledHTML |-> r.distilledHTML,
                             elementMap |-> r.elementMap,
                             totalElements |-> Len(elems[MainFrame]),
                             visibleElements |-> Len(r.elementMap)]
    /\ quiet' = TRUE
    /\ passes' = passes + 1
    /\ lastAction' = NoAction
    /\ UNCHANGED <<detached, parentOf, scrollY, innerHeight, pc, allFrames, idx,
                   globalIdCounter, allResults, changes, legacy,
                   labelling, walk>>

\* ------------------------------------ captureOptimizedSnapshotSingleFrame
LegacyKinds == {"visible", "dnone"}

\* iframe.getBoundingClientRect() of every iframe, in its own document.
IframeRect == [left |-> 10, top |-> 20]

\* collectAllElements(doc, selectors, iframeChain, depth) for document d: the
\* candidates of the document and of the documents nested in it, each with the
\* length of its iframe chain, and the warnings logged to the console.
RECURSIVE collectAllElements(_, _, _)
collectAllElements(docs, d, depth) ==
    IF depth > MAX_DEPTH
    THEN [elements |-> <<>>, warned |-> <<"iframe nesting too deep, stopping recursion">>]
    ELSE LET inner == IF d < Len(docs) THEN collectAllElements(docs, d + 1, depth + 1)
                      ELSE [elements |-> <<>>, warned |-> <<>>]
         IN [elements |-> <<[doc |-> d, kind |-> docs[d], iframeChain |-> d - 1]>>
                              \o inner.elements,
             warned |-> inner.warned]

\* The early returns of the forEach callback of the single-frame capture.
LegacyRetained(el, o, sY, viewportHeight) ==
    LET rect == getBoundingClientRect(el.kind)
        iframeOffsetY == el.iframeChain * IframeRect.top
    IN /\ ~TooSmall(rect, o)
       /\ o.includeHidden \/ (/\ ~CssHidden(el.kind)
                               /\ ~OutsideViewport(rect, o, sY, viewportHeight, iframeOffsetY))

\* elements.forEach of the single-frame capture.
RECURSIVE LegacyForEach(_, _, _, _, _, _)
LegacyForEach(i, acc, elements, o, sY, viewportHeight) ==
    IF i > Len(elements) \/ acc.threw THEN acc
    ELSE LET el == elements[i]
             rect == getBoundingClientRect(el.kind)
         IN IF ~LegacyRetained(el, o, sY, viewportHeight)
            THEN LegacyForEach(i + 1, acc, elements, o, sY, viewportHeight)
            ELSE LET mcpId == acc.idCounter
                     marked == [acc.markers EXCEPT ![el.doc] = mcpId]
                     cleaned == [acc.chains EXCEPT ![el.doc] = FALSE]
                 IN IF Kinds[el.kind].label = "number"
                    THEN [acc EXCEPT !.idCounter = mcpId + 1, !.markers = marked,
                                     !.chains = cleaned, !.threw = TRUE]
                    ELSE LegacyForEach(i + 1,
                           [idCounter |-> mcpId + 1,
                            markers |-> marked,
                            chains |-> cleaned,
                            threw |-> FALSE,
                            distilledHTML |-> Append(acc.distilledHTML,
                                [id |-> mcpId, selfClosing |-> ExtractText(el.kind) = ""]),
                            elementMap |-> Append(acc.elementMap,
                                [mcpId |-> mcpId,
                                 text |-> ExtractText(el.kind),
                                 bounds |-> [x |-> rect.x, y |-> rect.y,
                                             width |-> rect.width, height |-> rect.height],
                                 src |-> <<el.doc, 1>>])],
                           elements, o, sY, viewportHeight)

\* captureOptimizedSnapshotSingleFrame(page, options).
CaptureSingleFrame(options) ==
    /\ pc = "idle"
    /\ legacy.result = NoResult
    /\ \E o \in {ApplyDefaults(options)} :
       \E c \in {collectAllElements(legacy.docs, 1, 0)} :
       \E r \in {LegacyForEach(1, [idCounter |-> 1, markers |-> legacy.markers,
                                   chains |-> [d \in DOMAIN legacy.docs |->
                                                  \E k \in DOMAIN c.elements :
                                                      c.elements[k].doc = d],
                                   threw |-> FALSE, distilledHTML |-> <<>>,
                                   elementMap |-> <<>>],
                               c.elements, o, scrollY[MainFrame], innerHeight)} :
          legacy' = [docs |-> legacy.docs,
                     markers |-> r.markers,
                     chains |-> r.chains,
                     console |-> c.warned,
                     result |-> IF r.threw THEN [kind |-> "error"]
                                ELSE [kind |-> "result",
                                      distilledHTML |-> r.distilledHTML,
                                      elementMap |-> r.elementMap,
                                      totalElements |-> Len(c.elements),
                                      visibleElements |-> Len(r.elementMap)]]
    /\ UNCHANGED <<pageVars, pc, opts, allFrames, idx, globalIdCounter, allResults, result,
                   written, frameNode, passes, quiet, changes, lastAction,
                   labelling, walk>>

\* The page nests one more same-origin iframe in its innermost document.
NestFrame(kind) ==
    /\ legacy.result = NoResult
    /\ Len(legacy.docs) < MaxNesting
    /\ legacy' = [legacy EXCEPT !.docs = Append(@, kind), !.markers = Append(@, 0),
                               !.chains = Append(@, FALSE)]
    /\ UNCHANGED <<pageVars, pc, opts, allFrames, idx, globalIdCounter, allResults, result,
                   written, frameNode, passes, quiet, changes, lastAction,
                   labelling, walk>>

\* The loop over the frames reaches frame f, which is not detached, and sets
\* the offsets to 0 and currentFrame to the frame.
WalkStart(f) ==
    /\ walk.pc \in {"none", "done"}
    /\ ~isDetached(f, detached)
    /\ walk' = [pc |-> "walking", frame |-> f, currentFrame |-> f, visited |-> <<>>,
                boxes |-> <<>>, x |-> 0, y |-> 0, stop |-> "none"]
    /\ UNCHANGED <<pageVars, pc, opts, allFrames, idx, globalIdCounter, allResults, result,
                   written, frameNode, passes, quiet, changes, lastAction, legacy,
                   labelling>>

\* One test of the while condition and, when it holds, one run of the body.
WalkStep(outcome, p) ==
    /\ walk.pc = "walking"
    /\ Len(walk.visited) < MaxWalkSteps
    /\ IF walk.currentFrame = MainFrame
       THEN /\ outcome = "box" /\ p = 0
            /\ walk' = [walk EXCEPT !.pc = "done", !.stop = "main"]
       ELSE /\ p \in parentFrameOutcomes(walk.currentFrame, parentOf, detached)
            /\ IF p = 0
               THEN /\ outcome = "box"
                    /\ walk' = [walk EXCEPT !.pc = "done", !.stop = "noParent"]
               ELSE LET box == boundingBox(walk.currentFrame, parentOf)
                        add == outcome = "box"
                    IN walk' = [walk EXCEPT
                                   !.visited = Append(@, walk.currentFrame),
                                   !.boxes = Append(@, outcome),
                                   !.x = IF add THEN @ + box.x ELSE @,
                                   !.y = IF add THEN @ + box.y ELSE @,
                                   !.currentFrame = WalkNext(walk.currentFrame, p)]
    /\ UNCHANGED <<pageVars, pc, opts, allFrames, idx, globalIdCounter, allResults, result,
                   written, frameNode, passes, quiet, changes, lastAction, legacy,
                   labelling>>

\* The page gives the element one of its label sources.
SetSource(name, v) ==
    /\ labelling.html = Undefined
    /\ labelling.src[name] = Undefined
    /\ labelling' = [labelling EXCEPT !.src[name] = v]
    /\ UNCHANGED <<pageVars, pc, opts, allFrames, idx, globalIdCounter, allResults, result,
                   written, frameNode, passes, quiet, changes, lastAction, legacy, walk>>

\* The script extracts the label of the element and builds its fragment.
LabelElement(options) ==
    /\ labelling.html = Undefined
    /\ \E o \in {ApplyDefaults(options)} :
          labelling' = [labelling EXCEPT
                           !.maxTextLength = o.maxTextLength,
                           !.html = Some(BuildFragment(ExtractLabel(labelling.src,
                                                                    o.maxTextLength)))]
    /\ UNCHANGED <<pageVars, pc, opts, allFrames, idx, globalIdCounter, allResults, result,
                   written, frameNode, passes, quiet, changes, lastAction, legacy, walk>>

\* ------------------------------------------------------------ the page
\* A script or the user changes the layout or style of one element.
Restyle(f, i, kind) ==
    /\ pc = "idle"
    /\ changes < MaxChanges
    /\ ~detached[f]
    /\ elems[f][i].kind # kind
    /\ elems' = [elems EXCEPT ![f][i].kind = kind]
    /\ changes' = changes + 1
    /\ quiet' = FALSE
    /\ lastAction' = NoAction
    /\ UNCHANGED <<detached, parentOf, scrollY, innerHeight, passVars>>

\* The user scrolls a frame.
Scroll(f, s) ==
    /\ pc = "idle"
    /\ changes < MaxChanges
    /\ ~detached[f]
    /\ scrollY[f] # s
    /\ scrollY' = [scrollY EXCEPT ![f] = s]
    /\ changes' = changes + 1
    /\ quiet' = FALSE
    /\ lastAction' = NoAction
    /\ UNCHANGED <<elems, detached, parentOf, innerHeight, passVars>>

\* The page removes an element and renders a new node in its place.
ReplaceElement(f, i) ==
    /\ pc = "idle"
    /\ changes < MaxChanges
    /\ ~detached[f]
    /\ elems[f][i].marker # 0
    /\ elems' = [elems EXCEPT ![f][i].marker = 0]
    /\ changes' = changes + 1
    /\ quiet' = FALSE
    /\ lastAction' = NoAction
    /\ UNCHANGED <<detached, parentOf, scrollY, innerHeight, passVars>>

\* A nested frame is removed from the page, with the frames nested in it.
DetachFrame(f) ==
    /\ changes < MaxChanges
    /\ f # MainFrame
    /\ ~detached[f]
    /\ detached' = [g \in Frames |-> detached[g] \/ Within(g, f, parentOf)]
    /\ changes' = changes + 1
    /\ quiet' = FALSE
    /\ lastAction' = NoAction
    /\ UNCHANGED <<elems, parentOf, scrollY, innerHeight, passVars>>

\* The page navigates: a new document, no element bears a marker.
Navigate ==
    /\ changes < MaxChanges
    /\ pc = "idle"
    /\ elems' = [f \in Frames |-> [i \in 1 .. ElemCount(f) |-> [kind |-> "visible", marker |-> 0]]]
    /\ detached' = [f \in Frames |-> FALSE]
    /\ changes' = changes + 1
    /\ quiet' = FALSE
    /\ lastAction' = NoAction
    /\ UNCHANGED <<parentOf, scrollY, innerHeight, passVars>>

\* ------------------------------------------------------------- the tools
\* Identifiers and references a caller may send.
McpIdValues == {1, 3, 5}
RefValues == {"", "e1"}
ToolParams ==
    [mcpId : {Undefined} \cup {Some(n) : n \in McpIdValues},
     ref : {Undefined} \cup {Some(r) : r \in RefValues}]

\* tab.getElementByMcpId: page.locator('[data-mcp-id="N"]').  A page locator
\* matches elements of the main frame's document only.
getElementByMcpId(mcpId) ==
    {<<MainFrame, i>> : i \in {j \in DOMAIN elems[MainFrame] : elems[MainFrame][j].marker = mcpId}}

\* tab.refLocator: the element the ARIA snapshot reference names.
refLocator(ref) == IF ref = "e1" THEN {<<MainFrame, 1>>} ELSE {}

\* Playwright's actionability: the element has a non-empty box and is not
\* visibility:hidden.
Actionable(e) ==
    LET kind == elems[e[1]][e[2]].kind
        rect == getBoundingClientRect(kind)
    IN rect.width > 0 /\ rect.height > 0 /\ Kinds[kind].visibility # "hidden"

\* locator.click / dblclick / hover / selectOption inside waitForCompletion: a
\* locator is strict, and it waits for one actionable element until the timeout.
LocatorAction(matched) ==
    IF Cardinality(matched) > 1
    THEN [error |-> "StrictModeViolation", target |-> {}]
    ELSE IF matched = {} \/ \E e \in matched : ~Actionable(e)
    THEN [error |-> "TimeoutError", target |-> {}]
    ELSE [error |-> "none", target |-> matched]

UsageError == "Either ref or mcpId must be provided"

\* What a handler leaves behind: the addressing scheme it took, the elements its
\* locator matches, the error it threw and the element it acted on.
Outcome(tool, params, by, matched) ==
    [tool |-> tool, mcpId |-> params.mcpId, ref |-> params.ref, by |-> by,
     matched |-> matched,
     error |-> IF by = "none" THEN UsageError ELSE LocatorAction(matched).error,
     target |-> IF by = "none" THEN {} ELSE LocatorAction(matched).target]

\* browser_click
ClickHandle(params) ==
    IF params.mcpId # Undefined
    THEN Outcome("click", params, "mcpId", getElementByMcpId(params.mcpId[1]))
    ELSE IF params.ref # Undefined /\ params.ref[1] # ""
    THEN Outcome("click", params, "ref", refLocator(params.ref[1]))
    ELSE Outcome("click", params, "none", {})

\* Mutant: without the final else, a call with no mcpId goes to the ref branch.
HoverHandleNoUsageCheck(params) ==
    IF params.mcpId # Undefined
    THEN Outcome("hover", params, "mcpId", getElementByMcpId(params.mcpId[1]))
    ELSE Outcome("hover", params, "ref",
                 refLocator(IF params.ref = Undefined THEN "" ELSE params.ref[1]))

\* browser_hover
HoverHandle(params) ==
    IF params.mcpId # Undefined
    THEN Outcome("hover", params, "mcpId", getElementByMcpId(params.mcpId[1]))
    ELSE IF params.ref # Undefined /\ params.ref[1] # ""
    THEN Outcome("hover", params, "ref", refLocator(params.ref[1]))
    ELSE Outcome("hover", params, "none", {})

\* browser_select_option
SelectOptionHandle(params) ==
    IF params.mcpId # Undefined
    THEN Outcome("selectOption", params, "mcpId", getElementByMcpId(params.mcpId[1]))
    ELSE IF params.ref # Undefined /\ params.ref[1] # ""
    THEN Outcome("selectOption", params, "ref", refLocator(params.ref[1]))
    ELSE Outcome("selectOption", params, "none", {})

\* A tool call.  Every handler asks for a snapshot of the page in its response
\* (setIncludeSnapshot), so the record of a call is gone before the next call.
Click(params) ==
    /\ pc = "idle"
    /\ lastAction = NoAction
    /\ lastAction' = ClickHandle(params)
    /\ UNCHANGED <<pageVars, passVars, quiet, changes>>

Hover(params) ==
    /\ pc = "idle"
    /\ lastAction = NoAction
    /\ lastAction' = HoverHandle(params)
    /\ UNCHANGED <<pageVars, passVars, quiet, changes>>

SelectOption(params) ==
    /\ pc = "idle"
    /\ lastAction = NoAction
    /\ lastAction' = SelectOptionHandle(params)
    /\ UNCHANGED <<pageVars, passVars, quiet, changes>>

\* browser_drag: what a caller may send for the two endpoints.
DragParams ==
    [startMcpId : {Undefined, Some(1)},
     endMcpId : {Undefined, Some(2)},
     startRef : {Undefined} \cup {Some(r) : r \in RefValues},
     endRef : {Undefined} \cup {Some(r) : r \in RefValues}]

\* tab.refLocators: one locator per reference, in the order given.
refLocators(refs) == [k \in DOMAIN refs |-> refLocator(refs[k])]

DragUsageError == "Either both refs or both mcpIds must be provided"

\* startLocator.dragTo(endLocator) inside waitForCompletion: both locators are
\* strict and wait for an actionable element.
dragTo(start, end) ==
    IF LocatorAction(start).error # "none" THEN LocatorAction(start).error
    ELSE LocatorAction(end).error

\* What the drag handler leaves behind: the scheme that resolved each endpoint,
\* the elements the two locators match, the error thrown, whether the drag was
\* carried out.
DragOutcome(params, startBy, endBy, start, end) ==
    [tool |-> "drag", startMcpId |-> params.startMcpId, endMcpId |-> params.endMcpId,
     startRef |-> params.startRef, endRef |-> params.endRef,
     startBy |-> startBy, endBy |-> endBy, start |-> start, end |-> end,
     error |-> IF startBy = "none" THEN DragUsageError ELSE dragTo(start, end),
     dragged |-> startBy # "none" /\ dragTo(start, end) = "none"]

\* Mutant: each endpoint takes whichever of its two parameters is there.
DragHandlePerEndpoint(params) ==
    LET from(id, ref) == IF id # Undefined THEN "mcpId"
                         ELSE IF ref # Undefined /\ ref[1] # "" THEN "ref" ELSE "none"
        find(id, ref) == IF id # Undefined THEN getElementByMcpId(id[1])
                         ELSE refLocator(ref[1])
        startBy == from(params.startMcpId, params.startRef)
        endBy == from(params.endMcpId, params.endRef)
    IN IF startBy = "none" \/ endBy = "none"
       THEN DragOutcome(params, "none", "none", {}, {})
       ELSE DragOutcome(params, startBy, endBy,
                        find(params.startMcpId, params.startRef),
                        find(params.endMcpId, params.endRef))

\* browser_drag
DragHandle(params) ==
    IF params.startMcpId # Undefined /\ params.endMcpId # Undefined
    THEN DragOutcome(params, "mcpId", "mcpId",
                     getElementByMcpId(params.startMcpId[1]),
                     getElementByMcpId(params.endMcpId[1]))
    ELSE IF /\ params.startRef # Undefined /\ params.startRef[1] # ""
            /\ params.endRef # Undefined /\ params.endRef[1] # ""
    THEN LET locators == refLocators(<<params.startRef[1], params.endRef[1]>>)
         IN DragOutcome(params, "ref", "ref", locators[1], locators[2])
    ELSE DragOutcome(params, "none", "none", {}, {})

Drag(params) ==
    /\ pc = "idle"
    /\ lastAction = NoAction
    /\ lastAction' = DragHandle(params)
    /\ UNCHANGED <<pageVars, passVars, quiet, changes>>

\* ------------------------------------------------------- specification
EvaluateFates == {"ok", "rejected"}

\* One call of captureOptimizedSnapshot on a page that was changed at most
\* MaxChanges times beforehand, frames detaching while the pass runs.  Within
\* one loop iteration either a link is missing or the evaluation is rejected.
Next ==
    \/ \E options \in OptionValues : passes = 0 /\ StartPass(options)
    \/ \E options \in OptionValues : passes = 0 /\ CapturePageSnapshot(options)
    \/ \E fate \in EvaluateFates, noBox \in SUBSET (Frames \ {MainFrame}) :
          (fate = "ok" \/ noBox = {}) /\ ProcessFrame(fate, noBox)
    \/ \E f \in Frames : \E i \in DOMAIN elems[f], kind \in KindNames :
          passes = 0 /\ Restyle(f, i, kind)
    \/ \E f \in Frames, s \in ScrollOffsets : passes = 0 /\ Scroll(f, s)
    \/ \E f \in Frames : pc = "loop" /\ DetachFrame(f)

Spec == Init /\ [][Next]_vars

\* One call of captureOptimizedSnapshot of src/domOptimizer.ts, the revision
\* the guide's script is a copy of, on a page changed beforehand, frames
\* detaching while the pass runs.
NextFrameApi ==
    \/ \E options \in OptionValues : passes = 0 /\ StartPass(options)
    \/ \E fate \in EvaluateFates, noBox \in SUBSET (Frames \ {MainFrame}) :
          (fate = "ok" \/ noBox = {}) /\ ProcessFrame(fate, noBox)
    \/ \E f \in Frames : \E i \in DOMAIN elems[f], kind \in KindNames :
          passes = 0 /\ Restyle(f, i, kind)
    \/ \E f \in Frames, s \in ScrollOffsets : passes = 0 /\ Scroll(f, s)
    \/ \E f \in Frames : pc = "loop" /\ DetachFrame(f)

SpecFrameApi == Init /\ [][NextFrameApi]_vars

\* Distillation passes and tool calls on a page that changes in between.
ToolOptionValues == {o \in OptionValues : o.viewportBuffer = Undefined /\ o.minElementSize = Undefined}
ToolKinds == {"visible", "vhidden", "numval"}

NextTools ==
    \/ \E options \in ToolOptionValues : passes < MaxPasses /\ StartPass(options)
    \/ \E fate \in EvaluateFates : ProcessFrame(fate, {})
    \/ \E f \in Frames : \E i \in DOMAIN elems[f], kind \in ToolKinds : Restyle(f, i, kind)
    \/ \E f \in Frames : \E i \in DOMAIN elems[f] : ReplaceElement(f, i)
    \/ \E f \in Frames : DetachFrame(f)
    \/ Navigate
    \/ \E params \in ToolParams : Click(params)
    \/ \E params \in ToolParams : Hover(params)
    \/ \E params \in ToolParams : SelectOption(params)

SpecTools == Init /\ [][NextTools]_vars

\* One call of captureOptimizedSnapshotSingleFrame on a page of nested
\* same-origin documents.
LegacyOptionValues == {o \in OptionValues : o.viewportBuffer = Undefined /\ o.minElementSize = Undefined}

NextLegacy ==
    \/ \E kind \in LegacyKinds : NestFrame(kind)
    \/ \E options \in LegacyOptionValues : CaptureSingleFrame(options)

SpecLegacy == Init /\ [][NextLegacy]_vars

\* Consecutive distillation passes on a page that changes in between.
NextPasses ==
    \/ \E options \in ToolOptionValues : passes < MaxPasses /\ StartPass(options)
    \/ \E fate \in EvaluateFates : ProcessFrame(fate, {})
    \/ \E f \in Frames : \E i \in DOMAIN elems[f], kind \in ToolKinds : Restyle(f, i, kind)
    \/ \E f \in Frames : \E i \in DOMAIN elems[f] : ReplaceElement(f, i)

SpecPasses == Init /\ [][NextPasses]_vars

\* A distillation pass and a drag between two elements of the page.
NextDrag ==
    \/ \E options \in ToolOptionValues : passes = 0 /\ StartPass(options)
    \/ \E fate \in EvaluateFates : ProcessFrame(fate, {})
    \/ \E f \in Frames : \E i \in DOMAIN elems[f], kind \in ToolKinds : Restyle(f, i, kind)
    \/ \E params \in DragParams : Drag(params)

SpecDrag == Init /\ [][NextDrag]_vars

\* The label of one retained element, over every combination of its sources.
NextText ==
    \/ \E k \in DOMAIN LabelSourceNames :
          \E v \in SourceValues(LabelSourceNames[k]) : SetSource(LabelSourceNames[k], v)
    \/ \E options \in TextOptionValues : LabelElement(options)

SpecText == Init /\ [][NextText]_vars

\* The ancestor-offset loop, frame after frame, while frames detach.  Every
\* awaited call of the body settles, so the loop step is weakly fair.
NextWalk ==
    \/ \E f \in Frames : WalkStart(f)
    \/ \E outcome \in BoxOutcomes, p \in Frames \cup {0} : WalkStep(outcome, p)
    \/ \E f \in Frames : DetachFrame(f)

SpecWalk ==
    /\ Init
    /\ [][NextWalk]_vars
    /\ WF_vars(\E outcome \in BoxOutcomes, p \in Frames \cup {0} : WalkStep(outcome, p))

\* One call of captureOptimizedSnapshot in which an evaluation may never
\* return.  The event loop resumes the function whenever an awaited call
\* settles: the loop step is weakly fair.
LiveKinds == {"visible", "dnone", "numval"}

NextLive ==
    \/ \E options \in OptionValues : passes = 0 /\ StartPass(options)
    \/ \E fate \in EvaluateFates : ProcessFrame(fate, {})
    \/ EvaluateNeverReturns
    \/ \E f \in Frames : \E i \in DOMAIN elems[f], kind \in LiveKinds :
          passes = 0 /\ Restyle(f, i, kind)

SpecLive ==
    /\ Init
    /\ [][NextLive]_vars
    /\ WF_vars(\E fate \in EvaluateFates : ProcessFrame(fate, {}))

\* ================================================================ claims
\* ---- helpers of the claims
KindAt(e) == elems[e[1]][e[2]].kind
RectAt(e) == getBoundingClientRect(KindAt(e))
IsWritten(f, i) == \E w \in written : w[1] = f /\ w[2] = i
Descriptors == {result.elementMap[k] : k \in DOMAIN result.elementMap}
HasResult == pc = "idle" /\ result.kind = "result"
\* The forEach of frame f reached element i (no earlier callback threw).
Visited(f, i) ==
    \A j \in 1 .. (i - 1) : ~(IsWritten(f, j) /\ Kinds[elems[f][j].kind].label = "number")
ScriptRan(f) == frameNode[f].status \in {"ok", "failed"}
\* Sum of the positions of the iframe elements on the way up to the main frame.
RECURSIVE AncestorSum(_)
AncestorSum(f) ==
    IF f = MainFrame THEN [x |-> 0, y |-> 0]
    ELSE [x |-> FramePos(f).x + AncestorSum(parentOf[f]).x,
          y |-> FramePos(f).y + AncestorSum(parentOf[f]).y]
RECURSIVE CountOk(_)
CountOk(f) ==
    IF f \notin Frames THEN 0
    ELSE (IF frameNode[f].status = "ok" THEN Len(elems[f]) ELSE 0) + CountOk(f + 1)
IsDefaultConfig ==
    opts = [viewportBuffer |-> 1000, maxTextLength |-> 100, includeHidden |-> FALSE,
            minWidth |-> 1, minHeight |-> 1]

\* C1: in every returned result the identifiers of the descriptor list are
\* strictly increasing (hence pairwise distinct) in output order, and output
\* order is frame enumeration order, then document order within a frame.
C1_IdsStrictlyIncreasing ==
    HasResult =>
        \A i, j \in DOMAIN result.elementMap :
            i < j =>
                /\ result.elementMap[i].mcpId < result.elementMap[j].mcpId
                /\ \/ result.elementMap[i].src[1] < result.elementMap[j].src[1]
                   \/ /\ result.elementMap[i].src[1] = result.elementMap[j].src[1]
                      /\ result.elementMap[i].src[2] < result.elementMap[j].src[2]

\* A result with descriptors of two frames around a frame that failed.
C1_Witness ==
    /\ HasResult
    /\ Len(result.elementMap) >= 3
    /\ result.elementMap[1].src[1] # result.elementMap[3].src[1]
    /\ \E f \in Frames : frameNode[f].status = "failed"

\* C2: resolving an identifier of the result right after the pass, the page
\* unchanged since the pass started, matches exactly the element that produced
\* the descriptor, also for an element of a nested frame.
C2_ResolvesToProducer ==
    (lastAction.tool # "none" /\ HasResult /\ quiet) =>
        (lastAction.by = "mcpId" =>
            \A d \in Descriptors :
                d.mcpId = lastAction.mcpId[1] => lastAction.matched = {d.src})

\* C3: a tool call with an identifier that no element of the page bears fails
\* with an ElementNotFound error of its own and acts on no element.
C3_NotFoundIsDistinct ==
    (lastAction.tool # "none") =>
        ((/\ lastAction.by = "mcpId"
          /\ \A f \in Frames : \A i \in DOMAIN elems[f] :
                 elems[f][i].marker # lastAction.mcpId[1])
            => (lastAction.error = "ElementNotFound" /\ lastAction.target = {}))

\* C4: a tool call that supplies both mcpId and ref is rejected before any
\* element is resolved or acted on.
C4_BothRejected ==
    (lastAction.tool # "none") =>
        ((lastAction.mcpId # Undefined /\ lastAction.ref # Undefined) =>
            /\ lastAction.by = "none"
            /\ lastAction.error # "none"
            /\ lastAction.matched = {}
            /\ lastAction.target = {})

\* C5: a tool call (click, hover, select option) that supplies neither mcpId nor
\* ref throws the usage error; it resolves no locator and acts on no element.
C5_NeitherIsUsageError ==
    (lastAction.tool # "none") =>
        ((lastAction.mcpId = Undefined /\ lastAction.ref = Undefined) =>
            /\ lastAction.error = UsageError
            /\ lastAction.by = "none"
            /\ lastAction.matched = {}
            /\ lastAction.target = {})

\* A select-option call with neither addressing scheme has thrown.
C5_Witness ==
    /\ lastAction.tool = "selectOption"
    /\ lastAction.mcpId = Undefined
    /\ lastAction.ref = Undefined
    /\ lastAction.error = UsageError

\* C6: an element whose width or height is below the configured minimum is
\* never handed an identifier, bears no marker and has no descriptor, whatever
\* includeHidden, viewportBuffer and the element's style and position are.
C6_NoIdBelowMinimumSize ==
    \A f \in Frames : \A i \in DOMAIN elems[f] :
        (RectAt(<<f, i>>).width < opts.minWidth \/ RectAt(<<f, i>>).height < opts.minHeight)
            => /\ ~IsWritten(f, i)
               /\ elems[f][i].marker = 0
               /\ (result.kind = "result" => \A d \in Descriptors : d.src # <<f, i>>)

\* A pass with includeHidden set has run over a main frame that holds an
\* element below the minimum size next to a retained one.
C6_Witness ==
    /\ HasResult
    /\ opts.includeHidden
    /\ frameNode[MainFrame].status = "ok"
    /\ \E i \in DOMAIN elems[MainFrame] :
          /\ Kinds[elems[MainFrame][i].kind].display # "none"
          /\ RectAt(<<MainFrame, i>>).width < opts.minWidth
          /\ ~IsWritten(MainFrame, i)
    /\ \E i \in DOMAIN elems[MainFrame] : IsWritten(MainFrame, i)

\* C7: with includeHidden off, an element that passes the size and the CSS
\* checks is retained exactly when its bottom edge is not above scrollTop -
\* buffer and its top edge is not below scrollTop + viewportHeight + buffer: an
\* edge exactly on a boundary is retained, one pixel further out is rejected.
\* Edges are frame-local plus scroll offset plus the frame offset the pass
\* computed.
C7_ViewportBoundaryInclusive ==
    ~opts.includeHidden =>
        \A f \in Frames : ScriptRan(f) =>
            \A i \in DOMAIN elems[f] :
                LET rect == RectAt(<<f, i>>)
                    k == Kinds[KindAt(<<f, i>>)]
                    bottomEdge == rect.bottom + scrollY[f] + frameNode[f].y
                    topEdge == rect.top + scrollY[f] + frameNode[f].y
                    lower == scrollY[f] - opts.viewportBuffer
                    upper == scrollY[f] + innerHeight + opts.viewportBuffer
                IN (/\ Visited(f, i)
                    /\ rect.width >= opts.minWidth /\ rect.height >= opts.minHeight
                    /\ k.display # "none" /\ k.visibility # "hidden" /\ k.opacity # 0)
                   => (IsWritten(f, i) <=> (bottomEdge >= lower /\ topEdge <= upper))

\* An element whose bottom edge lies exactly on scrollTop - buffer was retained.
C7_Witness ==
    /\ HasResult
    /\ ~opts.includeHidden
    /\ \E f \in Frames : \E i \in DOMAIN elems[f] :
          /\ frameNode[f].status = "ok"
          /\ IsWritten(f, i)
          /\ RectAt(<<f, i>>).bottom + scrollY[f] + frameNode[f].y
                = scrollY[f] - opts.viewportBuffer

\* C8: the absolute (x, y) of a descriptor is the element's frame-local (x, y)
\* plus the sum, over every ancestor link, of the position of the iframe
\* element within its own parent frame (every link being inspectable).
C8_AbsoluteIsLocalPlusAncestorSum ==
    HasResult =>
        \A d \in Descriptors :
            frameNode[d.src[1]].noBox = {} =>
                /\ d.bounds.x = RectAt(d.src).x + AncestorSum(d.src[1]).x
                /\ d.bounds.y = RectAt(d.src).y + AncestorSum(d.src[1]).y

\* C9: with the default configuration the discovered count is the number of
\* candidates of the processed frames, no display-none element is retained,
\* and a page of one display-none and one visible button gives 2 and 1, the
\* descriptor being the visible button.
C9_OneHiddenOneVisible ==
    (HasResult /\ IsDefaultConfig) =>
        /\ result.totalElements = CountOk(1)
        /\ \A d \in Descriptors : Kinds[KindAt(d.src)].display # "none"
        /\ (/\ \A f \in Frames : frameNode[f].status = "ok" <=> f = MainFrame
            /\ {elems[MainFrame][i].kind : i \in DOMAIN elems[MainFrame]} = {"dnone", "visible"})
              => /\ result.totalElements = 2
                 /\ result.visibleElements = 1
                 /\ Len(result.elementMap) = 1
                 /\ KindAt(result.elementMap[1].src) = "visible"

\* The default pass over the page of one display-none and one visible button.
C9_Witness ==
    /\ HasResult
    /\ IsDefaultConfig
    /\ \A f \in Frames : frameNode[f].status = "ok" <=> f = MainFrame
    /\ {elems[MainFrame][i].kind : i \in DOMAIN elems[MainFrame]} = {"dnone", "visible"}
    /\ result.totalElements = 2
    /\ result.visibleElements = 1

\* C10: in every result retained <= discovered, retained is the number of
\* descriptors, and every marker the pass wrote belongs to an element that is
\* a descriptor of the result, with that identifier.
C10_MarkersOnlyForDescriptors ==
    HasResult =>
        /\ result.visibleElements <= result.totalElements
        /\ result.visibleElements = Len(result.elementMap)
        /\ \A w \in written :
              \E d \in Descriptors : d.src = <<w[1], w[2]>> /\ d.mcpId = w[3]

\* C11: when the evaluation of a frame fails, that frame contributes no
\* descriptor and nothing to the discovered count, and every other frame of
\* the enumeration is still reached: one that is not detached and does not
\* fail has its candidates counted and its retained elements in the result.
C11_FailedFrameAloneIsSkipped ==
    (HasResult /\ \E f \in Frames : frameNode[f].status = "failed") =>
        /\ \A d \in Descriptors : frameNode[d.src[1]].status = "ok"
        /\ result.totalElements = CountOk(1)
        /\ \A g \in Frames :
              /\ frameNode[g].status # "none"
              /\ frameNode[g].status = "skipped" => detached[g]
              /\ frameNode[g].status = "ok" =>
                    \A i \in DOMAIN elems[g] :
                        Retained(elems[g][i].kind, opts, scrollY[g], innerHeight,
                                 frameNode[g].y)
                            => \E d \in Descriptors : d.src = <<g, i>>

\* The middle frame failed; the frames before and after it are in the result.
C11_Witness ==
    /\ HasResult
    /\ frameNode[2].status = "failed"
    /\ frameNode[3].status = "ok"
    /\ \E d \in Descriptors : d.src[1] = 3
    /\ \E d \in Descriptors : d.src[1] = MainFrame

\* C12: a call in which no frame was processed fails instead of returning a
\* normal result, and a call in which some frame was processed returns one.
C12_NoFrameProcessedFails ==
    (pc = "idle" /\ passes > 0) =>
        (result.kind = "result" <=> \E f \in Frames : frameNode[f].status = "ok")

\* C13: the identifiers of a result with n descriptors are 1 .. n in output
\* order, also when frames were skipped or failed.
C13_IdsAreOneToN ==
    HasResult => \A k \in DOMAIN result.elementMap : result.elementMap[k].mcpId = k

\* A frame failed after it had written a marker and a later frame has a
\* descriptor in the result.
C13_Witness ==
    /\ HasResult
    /\ \E f \in Frames :
          /\ frameNode[f].status = "failed"
          /\ IsWritten(f, 1)
          /\ \E d \in Descriptors : d.src[1] > f

\* C14: within one pass no identifier is written as a marker to two different
\* elements and no element is written two identifiers, also when a frame
\* failed after writing markers and the pass went on.
C14_NoMarkerValueTwice ==
    \A w1, w2 \in written :
        (w1[3] = w2[3] \/ (w1[1] = w2[1] /\ w1[2] = w2[2])) => w1 = w2

\* C15: an identifier of the result that was issued to an element of a nested
\* frame, used right after the pass on the unchanged page, is looked up in the
\* owning frame: it matches that element, no element of another frame, and is
\* not reported missing.
C15_ResolutionIsFrameScoped ==
    (lastAction.tool # "none" /\ HasResult /\ quiet /\ lastAction.by = "mcpId") =>
        \A d \in Descriptors :
            (d.mcpId = lastAction.mcpId[1] /\ d.src[1] # MainFrame) =>
                /\ lastAction.matched # {}
                /\ \A e \in lastAction.matched : e[1] = d.src[1]
                /\ d.src \in lastAction.matched

\* C16: every pass that was started eventually returns, also when the
\* evaluation of a frame never returns.
C16_PassCompletes == (pc # "idle") ~> (pc = "idle")

\* C17: a result of a pass in which a frame was skipped or failed, or in which
\* an ancestor link contributed zero to an offset, carries a warning.
C17_WarningsAttachedToResult ==
    (HasResult /\ \E f \in Frames : \/ frameNode[f].status \in {"skipped", "failed"}
                                    \/ frameNode[f].noBox # {}) =>
        /\ "warnings" \in DOMAIN result
        /\ result.warnings # <<>>

\* Sum of the boxes of the iframe elements of the frames in S.
RECURSIVE LinkSum(_)
LinkSum(S) ==
    IF S = {} THEN [x |-> 0, y |-> 0]
    ELSE LET l == CHOOSE l \in S : TRUE
             rest == LinkSum(S \ {l})
         IN [x |-> boundingBox(l, parentOf).x + rest.x,
             y |-> boundingBox(l, parentOf).y + rest.y]

\* C18: a link whose iframe element cannot be inspected adds (0, 0) to the
\* offset of the frame, every other link still adds its box, and the frame is
\* evaluated, not skipped.
C18_MissingLinkAddsZero ==
    \A f \in Frames :
        /\ ScriptRan(f) =>
              /\ frameNode[f].x = LinkSum(Links(f, parentOf) \ frameNode[f].noBox).x
              /\ frameNode[f].y = LinkSum(Links(f, parentOf) \ frameNode[f].noBox).y
        /\ (frameNode[f].noBox # {} /\ ~detached[f]) => ScriptRan(f)

\* The innermost frame was evaluated with one of its two links missing and
\* its descriptor carries the box of the other link.
C18_Witness ==
    /\ HasResult
    /\ frameNode[3].status = "ok"
    /\ frameNode[3].noBox = {3}
    /\ frameNode[3].x = FramePos(2).x
    /\ \E d \in Descriptors : d.src[1] = 3 /\ d.bounds.x = RectAt(d.src).x + FramePos(2).x

\* C19: the single-frame capture over nested documents returns a result, no
\* descriptor comes from a document nested deeper than MAX_DEPTH, and when
\* documents were cut off the result carries a warning.
C19_DepthBoundedWithWarning ==
    legacy.result # NoResult =>
        /\ legacy.result.kind = "result"
        /\ \A k \in DOMAIN legacy.result.elementMap :
              legacy.result.elementMap[k].src[1] <= MAX_DEPTH + 1
        /\ Len(legacy.docs) > MAX_DEPTH + 1 =>
              /\ "warnings" \in DOMAIN legacy.result
              /\ legacy.result.warnings # <<>>

\* C20: when the loop reaches a frame that is detached, the step evaluates no
\* script in it: no marker is written, no element changes, the counter and
\* the per-frame results stay as they are, and the result returned after a
\* last, detached frame is the merge of the results gathered before it.
C20_DetachedFrameSkipped ==
    [][(pc = "loop" /\ idx <= Len(allFrames) /\ detached[allFrames[idx]]) =>
          /\ elems' = elems
          /\ written' = written
          /\ pc' = "loop" => (globalIdCounter' = globalIdCounter /\ allResults' = allResults)
          /\ pc' = "idle" => /\ result'.totalElements = SumTotal(allResults)
                             /\ result'.elementMap = FlattenMap(allResults)]_vars

\* The innermost frame was found detached; the frames before it are in the
\* result.
C20_Witness ==
    /\ HasResult
    /\ detached[3]
    /\ frameNode[3].status = "skipped"
    /\ frameNode[2].status = "ok"
    /\ result.totalElements = Len(elems[1]) + Len(elems[2])

\* What a pass that starts its counter at 1 returns for the frames f .. 3 of
\* the page as it is now, the frames processed being those the last pass
\* processed.
RECURSIVE PassFrom(_, _, _)
PassFrom(f, counter, results) ==
    IF f \notin Frames THEN MergeResults(results)
    ELSE IF frameNode[f].status # "ok" THEN PassFrom(f + 1, counter, results)
    ELSE LET r == EvaluateInFrame(f, elems[f], opts, counter,
                                  FrameOffset(f, parentOf, frameNode[f].noBox),
                                  scrollY[f], innerHeight)
         IN PassFrom(f + 1, NextCounter(r), PushResult(results, r, Len(elems[f])))

\* C21: a pass returns what a pass counting from 1 returns for the page as it
\* is, whatever earlier passes left behind, and every element of the result
\* bears its identifier of this pass: two passes over an unchanged page return
\* the same descriptors, counts and rendering.
C21_PassIndependentOfEarlierPasses ==
    (HasResult /\ quiet) =>
        /\ \A d \in Descriptors : elems[d.src[1]][d.src[2]].marker = d.mcpId
        /\ \E fresh \in {PassFrom(1, 1, <<>>)} :
              /\ result.elementMap = fresh.elementMap
              /\ result.distilledHTML = fresh.distilledHTML
              /\ result.totalElements = fresh.totalElements
              /\ result.visibleElements = fresh.visibleElements

\* The second of two passes over the unchanged page has returned all four
\* elements.
C21_Witness ==
    /\ HasResult
    /\ passes = 2
    /\ changes = 0
    /\ Len(result.elementMap) = 4
    /\ \A f \in Frames : frameNode[f].status = "ok"

\* C22: after passes interleaved with style changes, every identifier of the
\* latest result is borne by exactly one element of the page, the one its
\* descriptor describes (passes in which no frame failed).
C22_IdBorneByItsElementOnly ==
    (HasResult /\ quiet /\ \A f \in Frames : frameNode[f].status \in {"ok", "skipped"}) =>
        \A d \in Descriptors :
            {e \in {<<f, i>> : f \in Frames, i \in 1 .. 2} :
                 /\ e[2] \in DOMAIN elems[e[1]]
                 /\ ~detached[e[1]]
                 /\ elems[e[1]][e[2]].marker = d.mcpId} = {d.src}

\* C23: in every returned result the descriptors are ordered by the frame's
\* place in the enumeration and then by the element's place in its document,
\* the rendering has as many fragments as there are descriptors, and the i-th
\* fragment carries the identifier of the i-th descriptor.
C23_FragmentsFollowDescriptors ==
    HasResult =>
        /\ Len(result.distilledHTML) = Len(result.elementMap)
        /\ \A k \in DOMAIN result.elementMap :
              result.distilledHTML[k].id = result.elementMap[k].mcpId
        /\ \A j, k \in DOMAIN result.elementMap :
              j < k => \/ result.elementMap[j].src[1] < result.elementMap[k].src[1]
                       \/ /\ result.elementMap[j].src[1] = result.elementMap[k].src[1]
                          /\ result.elementMap[j].src[2] < result.elementMap[k].src[2]

\* A result with descriptors from the main frame and from both nested frames,
\* two of them from the main frame.
C23_Witness ==
    /\ HasResult
    /\ \A f \in Frames : \E d \in Descriptors : d.src[1] = f
    /\ \E d, e \in Descriptors : d.src[1] = e.src[1] /\ d.src[2] < e.src[2]
    /\ Len(result.distilledHTML) = 4
\* C24: for every element the script of a frame reached: with includeHidden
\* set it is given an identifier whenever it meets the minimum size, whatever
\* its display, visibility, opacity and vertical position, and in a frame
\* whose script returned it has a descriptor; with includeHidden not set an
\* element with display none, visibility hidden or opacity 0 is given no
\* identifier and has no descriptor.
C24_OverrideLiftsCssAndViewportOnly ==
    \A f \in Frames : \A i \in DOMAIN elems[f] :
        (ScriptRan(f) /\ Visited(f, i)) =>
            /\ (opts.includeHidden /\ ~TooSmall(RectAt(<<f, i>>), opts)) =>
                   /\ IsWritten(f, i)
                   /\ (HasResult /\ frameNode[f].status = "ok") =>
                          \E d \in Descriptors : d.src = <<f, i>>
            /\ (~opts.includeHidden /\ CssHidden(elems[f][i].kind)) =>
                   /\ ~IsWritten(f, i)
                   /\ HasResult => \A d \in Descriptors : d.src # <<f, i>>

\* A pass with includeHidden set has returned a descriptor for an element
\* whose style hides it, next to a descriptor of an element that is shown.
C24_Witness ==
    /\ HasResult
    /\ opts.includeHidden
    /\ \E d \in Descriptors : CssHidden(KindAt(d.src)) /\ IsWritten(d.src[1], d.src[2])
    /\ \E d \in Descriptors : ~CssHidden(KindAt(d.src))
\* C25: after the single-frame capture has returned, an element of a nested
\* document that has no descriptor is as it was before the pass: it bears no
\* marker and carries no __iframeChain property.
C25_RejectedElementUntouched ==
    legacy.result.kind = "result" =>
        \A d \in DOMAIN legacy.docs :
            (\A k \in DOMAIN legacy.result.elementMap :
                 legacy.result.elementMap[k].src[1] # d)
                => legacy.markers[d] = 0 /\ ~legacy.chains[d]
\* ---- helpers of C26
\* The first source, in reading order, that holds a string of length > 0.
RECURSIVE FirstNonEmpty(_)
FirstNonEmpty(k) ==
    IF k > Len(LabelSourceNames) THEN <<>>
    ELSE LET v == labelling.src[LabelSourceNames[k]]
         IN IF v # Undefined /\ Len(v[1]) > 0 THEN v[1] ELSE FirstNonEmpty(k + 1)
\* The maximal runs of non-whitespace characters of s, in order.
RECURSIVE Words(_, _)
Words(s, cur) ==
    IF s = <<>> THEN (IF cur = <<>> THEN <<>> ELSE <<cur>>)
    ELSE IF Head(s) \in Whitespace
         THEN (IF cur = <<>> THEN <<>> ELSE <<cur>>) \o Words(Tail(s), <<>>)
         ELSE Words(Tail(s), Append(cur, Head(s)))
RECURSIVE Join(_)
Join(ws) ==
    IF ws = <<>> THEN <<>>
    ELSE IF Len(ws) = 1 THEN ws[1]
    ELSE ws[1] \o <<" ">> \o Join(Tail(ws))
Collapsed(s) == Join(Words(s, <<>>))

\* C26: the label of a retained element is the first non-empty source in the
\* order innerText, aria-label, placeholder, title, alt, value, with every
\* whitespace run turned into one space (none at either end), cut to the
\* first maxTextLength characters: it is never longer than maxTextLength, and
\* the fragment is self-closing exactly when the label is empty.
C26_LabelFromFirstNonEmptySource ==
    labelling.html # Undefined =>
        LET text == labelling.html[1].text
            full == Collapsed(FirstNonEmpty(1))
        IN /\ Len(text) <= labelling.maxTextLength
           /\ Len(text) <= Len(full)
           /\ Len(text) = Len(full) \/ Len(text) = labelling.maxTextLength
           /\ \A i \in DOMAIN text : text[i] = full[i]
           /\ \A i \in DOMAIN text :
                 text[i] \in Whitespace => text[i] = " " /\ i > 1 /\ text[i - 1] \notin Whitespace
           /\ labelling.html[1].selfClosing <=> text = <<>>

\* innerText is empty and aria-label holds "c\nd": with maxTextLength 2 the
\* label is "c " and the fragment is not self-closing.
C26_Witness ==
    /\ labelling.html # Undefined
    /\ labelling.src.innerText = Some(<<>>)
    /\ labelling.src.ariaLabel = Some(SourceText.ariaLabel)
    /\ labelling.maxTextLength = 2
    /\ labelling.html[1].text = <<"c", " ">>
    /\ ~labelling.html[1].selfClosing
\* ---- helper of C30
WalkIsSound ==
    /\ \A j, k \in DOMAIN walk.visited : j # k => walk.visited[j] # walk.visited[k]
    /\ Len(walk.visited) <= Cardinality(Frames) - 1
    /\ \A k \in DOMAIN walk.visited :
          /\ walk.visited[k] # MainFrame
          /\ walk.visited[k] = IF k = 1 THEN walk.frame ELSE parentOf[walk.visited[k - 1]]
    /\ walk.pc = "walking" => walk.stop = "none"
    /\ walk.pc = "done" =>
          \/ walk.stop = "main" /\ walk.currentFrame = MainFrame
          \/ /\ walk.stop = "noParent"
             /\ walk.currentFrame # MainFrame
             /\ detached[walk.currentFrame]

\* C30: the loop that sums the offsets of the ancestors of a frame ends: it
\* goes from the frame to its parent, link by link, visits no link twice and
\* never more links than there are nested frames, and ends at the main frame
\* or at the first frame whose parentFrame() is null.
C30_OffsetLoopTerminates ==
    /\ []WalkIsSound
    /\ (walk.pc = "walking") ~> (walk.pc = "done")

\* The loop for the innermost frame took the link of that frame; then the
\* frame above was detached and the loop ended there, short of the main frame.
C30_Witness ==
    /\ walk.pc = "done"
    /\ walk.frame = 3
    /\ walk.visited = <<3>>
    /\ walk.stop = "noParent"
    /\ walk.currentFrame = 2
\* C27: a drag call resolves its endpoints by identifier exactly when both
\* startMcpId and endMcpId are supplied, and then both by identifier; it
\* resolves them by reference only when the identifiers are not both supplied
\* and both startRef and endRef are, and then both by reference; with neither
\* pair complete (a mixed pair included) it throws the usage error, resolves
\* no endpoint and drags nothing.
C27_DragTakesOneScheme ==
    (lastAction.tool = "drag") =>
        LET ids == lastAction.startMcpId # Undefined /\ lastAction.endMcpId # Undefined
            refs == lastAction.startRef # Undefined /\ lastAction.endRef # Undefined
        IN /\ lastAction.startBy = lastAction.endBy
           /\ lastAction.startBy = "mcpId" <=> ids
           /\ ids => /\ lastAction.start = getElementByMcpId(lastAction.startMcpId[1])
                     /\ lastAction.end = getElementByMcpId(lastAction.endMcpId[1])
           /\ lastAction.startBy = "ref" =>
                 /\ ~ids /\ refs
                 /\ lastAction.start = refLocator(lastAction.startRef[1])
                 /\ lastAction.end = refLocator(lastAction.endRef[1])
           /\ (~ids /\ ~refs) =>
                 /\ lastAction.startBy = "none"
                 /\ lastAction.error = DragUsageError
                 /\ lastAction.start = {} /\ lastAction.end = {}
                 /\ ~lastAction.dragged

\* After a pass that marked the elements of the main frame, a drag call with
\* startMcpId and endRef only has thrown the usage error.
C27_Witness ==
    /\ lastAction.tool = "drag"
    /\ HasResult
    /\ getElementByMcpId(1) # {}
    /\ lastAction.startMcpId = Some(1) /\ lastAction.endMcpId = Undefined
    /\ lastAction.startRef = Undefined /\ lastAction.endRef = Some("e1")
    /\ lastAction.error = DragUsageError
    /\ lastAction.start = {} /\ ~lastAction.dragged
\* ---- helpers of C28
\* The frames the finished pass enumerated, in order.
RECURSIVE EnumeratedFrom(_)
EnumeratedFrom(f) ==
    IF f \notin Frames THEN <<>>
    ELSE (IF frameNode[f].status = "none" THEN <<>> ELSE <<f>>) \o EnumeratedFrom(f + 1)
\* The page as it was when the finished pass began, and what the pass met.
PageBeforePass ==
    [frames |-> EnumeratedFrom(1),
     els |-> [f \in Frames |-> [i \in DOMAIN elems[f] |->
                                   [kind |-> elems[f][i].kind, marker |-> 0]]],
     parent |-> parentOf, scrollY |-> scrollY, innerHeight |-> innerHeight]
EnvOfPass ==
    [f \in Frames |-> [detached |-> frameNode[f].status = "skipped",
                       rejected |-> frameNode[f].status = "failed",
                       noBox |-> frameNode[f].noBox]]

\* C28: the script of the guide applies the same defaults as
\* captureOptimizedSnapshot, and run on the page a finished pass started
\* from, meeting the same detached frames, rejected evaluations and missing
\* boxes, it returns the same rendering, descriptors and counts, makes the
\* same setAttribute calls and leaves the same markers.
C28_GuideScriptEquivalent ==
    /\ \A options \in OptionValues : GuideDefaults(options) = ApplyDefaults(options)
    /\ HasResult =>
          \E g \in {GuideSnapshot(PageBeforePass, EnvOfPass, opts)} :
              /\ g.result.distilledHTML = result.distilledHTML
              /\ g.result.elementMap = result.elementMap
              /\ g.result.totalElements = result.totalElements
              /\ g.result.visibleElements = result.visibleElements
              /\ g.wrote = written
              /\ g.els = elems

\* A pass over three frames returned descriptors from the innermost frame,
\* with a frame offset, while the evaluation of the frame above failed.
C28_Witness ==
    /\ HasResult
    /\ frameNode[2].status = "failed"
    /\ frameNode[3].status = "ok" /\ frameNode[3].y > 0
    /\ \E d \in Descriptors : d.src[1] = 3
    /\ \E d \in Descriptors : d.src[1] = MainFrame
\* ---- helper of C29: scroll offsets to compare a decision against
ScrollSamples == ScrollOffsets \cup {0, 5000}

\* C29: with includeHidden off, for an element that passes the size and CSS
\* checks, the decision the pass took at the frame's scroll offset is the
\* decision the viewport test gives at every other scroll offset, the
\* element's box, the frame offset, the viewport height and the buffer being
\* the same; in the main-document-only revision likewise.
C29_ScrollOffsetCancels ==
    ~opts.includeHidden =>
        /\ \A f \in Frames : \A i \in DOMAIN elems[f] :
              (/\ ScriptRan(f) /\ Visited(f, i)
               /\ ~TooSmall(RectAt(<<f, i>>), opts)
               /\ ~CssHidden(elems[f][i].kind))
              => \A s \in ScrollSamples :
                    IsWritten(f, i) <=>
                        ~OutsideViewport(RectAt(<<f, i>>), opts, s, innerHeight,
                                         frameNode[f].y)
        /\ (HasResult /\ frameNode[MainFrame].status = "none") =>
              \A i \in DOMAIN elems[MainFrame] :
                  Visited(MainFrame, i) =>
                      \A s \in ScrollSamples :
                          IsWritten(MainFrame, i) <=>
                              PageRetained(elems[MainFrame][i].kind, opts, s, innerHeight)

\* A pass ran in a main frame scrolled down by 300 and retained an element of
\* a nested frame whose script saw no scrolling.
C29_Witness ==
    /\ HasResult
    /\ ~opts.includeHidden
    /\ scrollY[MainFrame] = 300
    /\ frameNode[MainFrame].status = "ok"
    /\ \E i \in DOMAIN elems[MainFrame] : IsWritten(MainFrame, i)
    /\ \E f \in Frames : scrollY[f] = 0 /\ frameNode[f].status = "ok" /\ frameNode[f].y > 0
                          /\ IsWritten(f, 1)
====
